---- MODULE Spec2Model ----
(***************************************************************************)
(* Gas mixture composition engine of experimentlib (data/gas.py), with the *)
(* parts of data/unit.py and util/storage.py it relies on.                 *)
(*                                                                         *)
(* Numbers.  Python floats are modelled as fixed-point numbers with a      *)
(* resolution of 1e-12: the record [ppm |-> u, sub |-> p] stands for       *)
(* u * 1e-6 + p * 1e-12, with 0 <= p < 1e6 (u may be negative).  Results   *)
(* of multiplications and divisions are rounded to the nearest grid point, *)
(* as floats round to the nearest representable value.                     *)
(***************************************************************************)
EXTENDS Integers, Sequences, FiniteSets, TLC

VARIABLES
    registry,   \* gas.registry._registry: key -> GasProperties
    heap,       \* the Mixture objects held by the client, by object slot
    gen,        \* per slot: how many scalings produced the object it holds
    result      \* outcome of the last operation (returned reference or error)

vars == <<registry, heap, gen, result>>

None == [none |-> TRUE]

----------------------------------------------------------------------------
(* Fixed-point numbers *)

PPM == 1000000

Num(u, p) == [ppm |-> u + (p \div PPM), sub |-> p % PPM]

Zero == Num(0, 0)
One  == Num(PPM, 0)

NumAdd(x, y) == Num(x.ppm + y.ppm, x.sub + y.sub)
NumNeg(x)    == Num(0 - x.ppm, 0 - x.sub)
NumSub(x, y) == NumAdd(x, NumNeg(y))
NumLt(x, y)  == x.ppm < y.ppm \/ (x.ppm = y.ppm /\ x.sub < y.sub)
NumLe(x, y)  == ~NumLt(y, x)

\* x * n / d for a rational factor n/d, rounded to the grid
NumScale(x, n, d) ==
    LET U == x.ppm * n
        P == (U % d) * PPM + x.sub * n
    IN  Num(U \div d, (2 * P + d) \div (2 * d))

\* x * 100, x * 1e6, x * 1e9 (exact)
NumTimes100(x) == Num(x.ppm * 100, x.sub * 100)
NumTimes1e6(x) == Num(x.ppm * PPM + x.sub, 0)
NumTimes1e9(x) == Num((x.ppm * PPM + x.sub) * 1000, 0)

\* x / 100, x / 1e6, x / 1e9, rounded to the grid
NumOver100(x) == Num(x.ppm \div 100, ((x.ppm % 100) * PPM + x.sub + 50) \div 100)
NumOver1e6(x) == Num(0, x.ppm + ((x.sub + 500000) \div PPM))
NumOver1e9(x) == Num(0, (x.ppm + 500) \div 1000)

----------------------------------------------------------------------------
(* Quantities (pint, data/unit.py): a magnitude and a unit *)

dimensionless == "dimensionless"

DimensionlessUnits == {dimensionless, "pct", "ppm", "ppb"}

Quantity(m, units) == [m |-> m, units |-> units]

\* Quantity.dimensionless
IsDimensionless(q) == q.units \in DimensionlessUnits

\* Quantity.m_as(unit.dimensionless)
m_as_dimensionless(q) ==
    CASE q.units = "pct" -> NumOver100(q.m)
      [] q.units = "ppm" -> NumOver1e6(q.m)
      [] q.units = "ppb" -> NumOver1e9(q.m)
      [] OTHER           -> q.m

\* Quantity.to(units) of a dimensionless quantity
to(q, units) ==
    LET f == m_as_dimensionless(q)
    IN  CASE units = "pct" -> Quantity(NumTimes100(f), units)
          [] units = "ppm" -> Quantity(NumTimes1e6(f), units)
          [] units = "ppb" -> Quantity(NumTimes1e9(f), units)
          [] OTHER         -> Quantity(f, units)

\* unit.converter(): parse(x, dimensionless)
converter(q) == Quantity(m_as_dimensionless(q), dimensionless)

----------------------------------------------------------------------------
(* Errors *)

Ok(v)    == [err |-> "none", val |-> v]
Raise(e) == [err |-> e, val |-> None]

\* an error whose message quotes the values in args
RaiseWith(e, args) == [err |-> e, val |-> args]

\* the exception classes of gas.py and their base classes
ErrorBase ==
    [GasError              |-> "ExperimentLibError",
     CalculationError      |-> "GasError",
     NegativeQuantityError |-> "CalculationError",
     MixingError           |-> "GasError",
     UnknownGas            |-> "GasError"]

\* isinstance(e, cls) for a raised error e
IsError(e, cls) ==
    \/ e = cls
    \/ /\ e \in DOMAIN ErrorBase
       /\ \/ ErrorBase[e] = cls
          \/ /\ ErrorBase[e] \in DOMAIN ErrorBase
             /\ ErrorBase[ErrorBase[e]] = cls

----------------------------------------------------------------------------
(* Registry (util/storage.py) and the gas catalog (gas.py) *)

UpperCase == <<"A","B","C","D","E","F","G","H","I","J","K","L","M",
               "N","O","P","Q","R","S","T","U","V","W","X","Y","Z">>
LowerCase == <<"a","b","c","d","e","f","g","h","i","j","k","l","m",
               "n","o","p","q","r","s","t","u","v","w","x","y","z">>

\* str.lower() of one character
lower(c) ==
    IF \E i \in DOMAIN UpperCase : UpperCase[i] = c
    THEN LowerCase[CHOOSE i \in DOMAIN UpperCase : UpperCase[i] = c]
    ELSE c

\* safe_key that leaves hyphens alone
safe_key_KeepsHyphen(x) ==
    [i \in DOMAIN x |-> IF x[i] = " " THEN "_" ELSE lower(x[i])]

\* Registry._safe_key: names are sequences of characters
safe_key(x) ==
    [i \in DOMAIN x |->
        IF x[i] = " " \/ x[i] = "-" THEN "_" ELSE lower(x[i])]

\* MolecularStructure: the members and their values, in thousandths
MONATOMIC  == [value |-> 1030]
DIATOMIC   == [value |-> 1000]
TRIATOMIC  == [value |-> 941]
POLYATOMIC == [value |-> 880]

\* specific_heat and density are Quantities with magnitudes in
\* ten-thousandths; a property the catalog leaves out is None
cal_per_g(m) == Quantity(m, "cal/g")
g_per_L(m)   == Quantity(m, "g/L")

GasProperties(name, symbol, molecular_structure, specific_heat, density, inert, humid) ==
    [name |-> name, symbol |-> symbol,
     molecular_structure |-> molecular_structure,
     specific_heat |-> specific_heat, density |-> density,
     inert |-> inert, humid |-> humid]

\* GasProperties.registry_key
registry_key(item) == item.name

Air ==
    GasProperties(<<"A","i","r">>, "None",
                  DIATOMIC, cal_per_g(2400), g_per_L(12930), TRUE, FALSE)
Ammonia ==
    GasProperties(<<"A","m","m","o","n","i","a">>, "NH_3",
                  POLYATOMIC, cal_per_g(4920), g_per_L(7600), FALSE, FALSE)
Carbon_dioxide ==
    GasProperties(<<"C","a","r","b","o","n","-","d","i","o","x","i","d","e">>,
                  "CO_2",
                  TRIATOMIC, cal_per_g(2016), g_per_L(19640), FALSE, FALSE)
Helium ==
    GasProperties(<<"H","e","l","i","u","m">>, "He",
                  MONATOMIC, cal_per_g(12410), g_per_L(1786), FALSE, FALSE)
Hydrogen ==
    GasProperties(<<"H","y","d","r","o","g","e","n">>, "H_2",
                  DIATOMIC, cal_per_g(33852), g_per_L(899), FALSE, FALSE)
Methane ==
    GasProperties(<<"M","e","t","h","a","n","e">>, "CH_4",
                  POLYATOMIC, cal_per_g(5223), g_per_L(7160), FALSE, FALSE)
Nitrogen ==
    GasProperties(<<"N","i","t","r","o","g","e","n">>, "N_2",
                  DIATOMIC, cal_per_g(2485), g_per_L(12500), TRUE, FALSE)
Nitric_oxides ==
    GasProperties(<<"N","i","t","r","i","c","-","o","x","i","d","e","s">>,
                  "NO_x", None, None, None, FALSE, FALSE)
Humid_Air ==
    GasProperties(<<"H","u","m","i","d"," ","A","i","r">>, "None",
                  DIATOMIC, cal_per_g(2400), g_per_L(12930), TRUE, TRUE)

\* the entries of the catalog the model carries, in catalog order
InitialGases ==
    <<Air, Ammonia, Carbon_dioxide, Helium, Hydrogen, Methane, Nitrogen,
      Nitric_oxides, Humid_Air>>

\* register that keeps the entry a key already holds
register_KeepsFirst(d, item) ==
    LET key == safe_key(registry_key(item))
    IN  IF key \in DOMAIN d THEN d
        ELSE [k \in (DOMAIN d) \cup {key} |-> IF k = key THEN item ELSE d[k]]

\* Registry.register on the dict d
register(d, item) ==
    LET key == safe_key(registry_key(item))
    IN  [k \in (DOMAIN d) \cup {key} |-> IF k = key THEN item ELSE d[k]]

RECURSIVE RegistryInit(_, _)
\* Registry.__init__: register every item of initial, in order
RegistryInit(d, initial) ==
    IF initial = <<>> THEN d
    ELSE RegistryInit(register(d, Head(initial)), Tail(initial))

\* Registry.__contains__ and Registry.__getitem__
Contains(d, item) == safe_key(item) \in DOMAIN d
GetItem(d, item)  == d[safe_key(item)]

----------------------------------------------------------------------------
(* Component *)

Component(quantity, properties) ==
    [quantity |-> quantity, properties |-> properties]

Fraction(c) == m_as_dimensionless(c.quantity)

\* thresholds of the display unit
PctThreshold == Num(100, 0)   \* 1e-4
PpmThreshold == Num(1, 0)     \* 1e-6

NumAbs(x) == IF NumLt(x, Zero) THEN NumNeg(x) ELSE x

\* ComponentNew without the check for negative concentrations
ComponentNew_Unchecked(x, properties) ==
    IF ~IsDimensionless(x) THEN Raise("QuantityParseError")
    ELSE
    LET quantity  == converter(x)
        magnitude == NumAbs(m_as_dimensionless(quantity))
        units     == IF NumLe(PctThreshold, magnitude) THEN "pct"
                     ELSE IF NumLe(PpmThreshold, magnitude) THEN "ppm"
                     ELSE IF NumLt(Zero, magnitude) THEN "ppb"
                     ELSE dimensionless
    IN  Ok(Component(to(quantity, units), properties))

\* ComponentNew rejecting a zero concentration too (<= for <)
ComponentNew_RejectsZero(x, properties) ==
    IF ~IsDimensionless(x) THEN Raise("QuantityParseError")
    ELSE
    LET quantity  == converter(x)
        magnitude == NumAbs(m_as_dimensionless(quantity))
        units     == IF NumLe(PctThreshold, magnitude) THEN "pct"
                     ELSE IF NumLe(PpmThreshold, magnitude) THEN "ppm"
                     ELSE IF NumLt(Zero, magnitude) THEN "ppb"
                     ELSE dimensionless
    IN  IF NumLe(quantity.m, Zero)
        THEN Raise("NegativeQuantityError")
        ELSE Ok(Component(to(quantity, units), properties))

\* ComponentNew choosing percent only above 1e-4 (> for >=)
ComponentNew_StrictThreshold(x, properties) ==
    IF ~IsDimensionless(x) THEN Raise("QuantityParseError")
    ELSE
    LET quantity  == converter(x)
        magnitude == NumAbs(m_as_dimensionless(quantity))
        units     == IF NumLt(PctThreshold, magnitude) THEN "pct"
                     ELSE IF NumLe(PpmThreshold, magnitude) THEN "ppm"
                     ELSE IF NumLt(Zero, magnitude) THEN "ppb"
                     ELSE dimensionless
    IN  IF NumLt(quantity.m, Zero)
        THEN Raise("NegativeQuantityError")
        ELSE Ok(Component(to(quantity, units), properties))

\* Component(quantity, properties): converter, then __attrs_post_init__
ComponentNew(x, properties) ==
    IF ~IsDimensionless(x) THEN Raise("QuantityParseError")
    ELSE
    LET quantity  == converter(x)
        magnitude == NumAbs(m_as_dimensionless(quantity))
        units     == IF NumLe(PctThreshold, magnitude) THEN "pct"
                     ELSE IF NumLe(PpmThreshold, magnitude) THEN "ppm"
                     ELSE IF NumLt(Zero, magnitude) THEN "ppb"
                     ELSE dimensionless
    IN  IF NumLt(quantity.m, Zero)
        THEN Raise("NegativeQuantityError")
        ELSE Ok(Component(to(quantity, units), properties))

\* ComponentRMul storing the product without constructing a Component
ComponentRMul_Unvalidated(c, n, d) ==
    Ok(Component(Quantity(NumScale(c.quantity.m, n, d), c.quantity.units),
                 c.properties))

\* Component.__rmul__: other is a float n/d
ComponentRMul(c, n, d) ==
    ComponentNew(Quantity(NumScale(c.quantity.m, n, d), c.quantity.units),
                 c.properties)

\* _quantity_mag_rounded: the fraction, rounded to 12 decimal places (the
\* resolution of the numbers of the model)
quantity_mag_rounded(x) == m_as_dimensionless(x)

\* ComponentEq comparing the stored magnitudes, whatever their units
ComponentEq_ComparesMagnitude(a, b) ==
    /\ a.quantity.m = b.quantity.m
    /\ a.properties = b.properties

\* Component.__eq__ (attrs): the eq keys of the fields, compared as a tuple
ComponentEq(a, b) ==
    <<quantity_mag_rounded(a.quantity), a.properties>>
        = <<quantity_mag_rounded(b.quantity), b.properties>>

\* Component.__hash__ (attrs): the hash of the tuple of the eq keys
ComponentHash(c) == <<quantity_mag_rounded(c.quantity), c.properties>>

----------------------------------------------------------------------------
(* Mixture *)

Mixture(components, balance) ==
    [components |-> components, balance |-> balance]

Tolerance == Num(0, 1)        \* 1e-12

RECURSIVE SumFractions(_)
SumFractions(components) ==
    IF components = <<>> THEN Zero
    ELSE NumAdd(Fraction(Head(components)), SumFractions(Tail(components)))

\* insert c behind every element that is not smaller (keeps the sort stable)
RECURSIVE InsertDescending(_, _)
InsertDescending(sorted, c) ==
    IF sorted = <<>> THEN <<c>>
    ELSE IF NumLt(Fraction(Head(sorted)), Fraction(c))
         THEN <<c>> \o sorted
         ELSE <<Head(sorted)>> \o InsertDescending(Tail(sorted), c)

RECURSIVE SortDescendingFrom(_, _)
SortDescendingFrom(sorted, rest) ==
    IF rest = <<>> THEN sorted
    ELSE SortDescendingFrom(InsertDescending(sorted, Head(rest)), Tail(rest))

\* sorted(components, key=lambda x: x.quantity, reverse=True)
SortDescending(components) == SortDescendingFrom(<<>>, components)

\* MixtureNew without the tolerance (fails as soon as the total exceeds 1)
MixtureNew_NoTolerance(components, balance) ==
    LET overall_quantity == NumAdd(Fraction(balance), SumFractions(components))
    IN  IF NumLt(Zero, NumSub(overall_quantity, One))
        THEN Raise("CalculationError")
        ELSE Ok(Mixture(SortDescending(components), balance))

\* MixtureNew whose failure hands out the Mixture it was building
MixtureNew_LeaksPartial(components, balance) ==
    LET overall_quantity == NumAdd(Fraction(balance), SumFractions(components))
    IN  IF NumLt(Tolerance, NumSub(overall_quantity, One))
        THEN [Raise("CalculationError") EXCEPT !.val = Mixture(components, balance)]
        ELSE Ok(Mixture(SortDescending(components), balance))

\* Mixture(components, balance): __attrs_post_init__
MixtureNew(components, balance) ==
    LET overall_quantity == NumAdd(Fraction(balance), SumFractions(components))
    IN  IF NumLt(Tolerance, NumSub(overall_quantity, One))
        THEN Raise("CalculationError")
        ELSE Ok(Mixture(SortDescending(components), balance))

\* AutoBalance whose loop misses the last component
AutoBalance_SkipsLast(components, balance) ==
    LET balance_quantity ==
            Quantity(NumSub(One, SumFractions(SubSeq(components, 1,
                                                     Len(components) - 1))),
                     dimensionless)
        b == ComponentNew(balance_quantity, balance)
    IN  IF b.err # "none" THEN b
        ELSE MixtureNew(components, b.val)

\* AutoBalance taking a balance within 1e-12 below zero as zero
AutoBalance_Tolerant(components, balance) ==
    LET remainder == NumSub(One, SumFractions(components))
        balance_quantity ==
            Quantity(IF NumLt(remainder, Zero)
                        /\ NumLe(NumNeg(Tolerance), remainder)
                     THEN Zero ELSE remainder,
                     dimensionless)
        b == ComponentNew(balance_quantity, balance)
    IN  IF b.err # "none" THEN b
        ELSE MixtureNew(components, b.val)

\* Mixture.auto_balance
AutoBalance(components, balance) ==
    LET balance_quantity == Quantity(NumSub(One, SumFractions(components)),
                                     dimensionless)
        b == ComponentNew(balance_quantity, balance)
    IN  IF b.err # "none" THEN b
        ELSE MixtureNew(components, b.val)

\* the factor of a dimensionless unit, as 1/UnitDivisor
UnitDivisor(units) ==
    CASE units = "pct" -> 100
      [] units = "ppm" -> PPM
      [] units = "ppb" -> 1000 * PPM
      [] OTHER         -> 1

RECURSIVE GCD(_, _)
\* the float n/d in lowest terms is n \div GCD(n, d) over d \div GCD(n, d)
GCD(n, d) == IF d = 0 THEN n ELSE GCD(d, n % d)

RECURSIVE ScaleAll(_, _, _)
\* [other * gas for gas in self.components], other the float n/d
ScaleAll(components, n, d) ==
    IF components = <<>> THEN Ok(<<>>)
    ELSE LET c == ComponentRMul(Head(components), n, d)
             r == ScaleAll(Tail(components), n, d)
         IN  IF c.err # "none" THEN c
             ELSE IF r.err # "none" THEN r
             ELSE Ok(<<c.val>> \o r.val)

\* Mul that rebalances the scaled components instead of keeping self.balance
Mul_Rebalances(self, other) ==
    IF other.type = "Quantity" /\ other.units \notin DimensionlessUnits
    THEN Raise("CalculationError")
    ELSE IF other.type \notin {"int", "float", "Quantity"}
    THEN Raise("NotImplementedError")
    ELSE LET d == IF other.type = "Quantity"
                  THEN other.d * UnitDivisor(other.units)
                  ELSE other.d
             g == GCD(IF other.n < 0 THEN 0 - other.n ELSE other.n, d)
             scaled_gases == ScaleAll(self.components, other.n \div g, d \div g)
         IN  IF scaled_gases.err # "none" THEN scaled_gases
             ELSE AutoBalance(scaled_gases.val, self.balance.properties)

\* Mul dividing a Quantity by the factor of its unit twice
Mul_ConvertsTwice(self, other) ==
    IF other.type = "Quantity" /\ other.units \notin DimensionlessUnits
    THEN Raise("CalculationError")
    ELSE IF other.type \notin {"int", "float", "Quantity"}
    THEN Raise("NotImplementedError")
    ELSE LET d == IF other.type = "Quantity"
                  THEN other.d * UnitDivisor(other.units) * UnitDivisor(other.units)
                  ELSE other.d
             g == GCD(IF other.n < 0 THEN 0 - other.n ELSE other.n, d)
             scaled_gases == ScaleAll(self.components, other.n \div g, d \div g)
         IN  IF scaled_gases.err # "none" THEN scaled_gases
             ELSE MixtureNew(scaled_gases.val, self.balance)

\* Mixture.__mul__ (and __rmul__): other is
\*   [type |-> "int" | "float" | "Quantity" | "str", n, d, units]
Mul(self, other) ==
    IF other.type = "Quantity" /\ other.units \notin DimensionlessUnits
    THEN Raise("CalculationError")
    ELSE IF other.type \notin {"int", "float", "Quantity"}
    THEN Raise("NotImplementedError")
    ELSE LET d == IF other.type = "Quantity"
                  THEN other.d * UnitDivisor(other.units)
                  ELSE other.d
             g == GCD(IF other.n < 0 THEN 0 - other.n ELSE other.n, d)
             scaled_gases == ScaleAll(self.components, other.n \div g, d \div g)
         IN  IF scaled_gases.err # "none" THEN scaled_gases
             ELSE MixtureNew(scaled_gases.val, self.balance)

\* DictAdd that overwrites the quantity of a species already present (= for +=)
DictAdd_Overwrites(dict, component) ==
    IF \E i \in DOMAIN dict : dict[i].properties = component.properties
    THEN [i \in DOMAIN dict |->
            IF dict[i].properties = component.properties
            THEN [dict[i] EXCEPT !.quantity = Fraction(component)]
            ELSE dict[i]]
    ELSE Append(dict, [properties |-> component.properties,
                       quantity   |-> Fraction(component)])

\* gas_component_dict after one more component: a sequence of
\* [properties, quantity] in insertion order, quantities summed per species
DictAdd(dict, component) ==
    IF \E i \in DOMAIN dict : dict[i].properties = component.properties
    THEN [i \in DOMAIN dict |->
            IF dict[i].properties = component.properties
            THEN [dict[i] EXCEPT !.quantity = NumAdd(@, Fraction(component))]
            ELSE dict[i]]
    ELSE Append(dict, [properties |-> component.properties,
                       quantity   |-> Fraction(component)])

RECURSIVE MergeComponents(_, _)
MergeComponents(dict, components) ==
    IF components = <<>> THEN dict
    ELSE MergeComponents(DictAdd(dict, Head(components)), Tail(components))

RECURSIVE ComponentsOfDict(_)
\* [Component(quantity, properties) for properties, quantity in dict.items()]
ComponentsOfDict(dict) ==
    IF dict = <<>> THEN Ok(<<>>)
    ELSE LET c == ComponentNew(Quantity(Head(dict).quantity, dimensionless),
                               Head(dict).properties)
             r == ComponentsOfDict(Tail(dict))
         IN  IF c.err # "none" THEN c
             ELSE IF r.err # "none" THEN r
             ELSE Ok(<<c.val>> \o r.val)

\* AddMixture comparing the balance Components instead of their species
AddMixture_ComparesBalance(self, other) ==
    IF self.balance # other.balance
    THEN Raise("MixingError")
    ELSE LET gas_component_dict ==
                 MergeComponents(<<>>, self.components \o other.components)
             merged == ComponentsOfDict(gas_component_dict)
         IN  IF merged.err # "none" THEN merged
             ELSE AutoBalance(merged.val, self.balance.properties)

\* AddMixture keeping the balance Component of the receiver
AddMixture_KeepsSelfBalance(self, other) ==
    IF self.balance.properties # other.balance.properties
    THEN Raise("MixingError")
    ELSE LET gas_component_dict ==
                 MergeComponents(<<>>, self.components \o other.components)
             merged == ComponentsOfDict(gas_component_dict)
         IN  IF merged.err # "none" THEN merged
             ELSE MixtureNew(merged.val, self.balance)

\* Mixture.__add__ with a Mixture
AddMixture(self, other) ==
    IF self.balance.properties # other.balance.properties
    THEN Raise("MixingError")
    ELSE LET gas_component_dict ==
                 MergeComponents(<<>>, self.components \o other.components)
             merged == ComponentsOfDict(gas_component_dict)
         IN  IF merged.err # "none" THEN merged
             ELSE AutoBalance(merged.val, self.balance.properties)

\* AppendComponent that sorts the list again
AppendComponent_Sorts(self, other) ==
    [self EXCEPT !.components = SortDescending(Append(@, other))]

\* Mixture.__add__ with a Component: self.components.append(other)
AppendComponent(self, other) ==
    [self EXCEPT !.components = Append(@, other)]

\* a rational number n/d in lowest terms: the value of a gas correction
\* factor, computed exactly
Ratio(n, d) == LET g == GCD(n, d) IN [n |-> n \div g, d |-> d \div g]

\* 0.3106 * s / (density * specific_heat) with s in thousandths and density
\* and specific_heat in ten-thousandths is 31060 * s / (density * specific_heat)
GcfScale == 31060

\* the catalog gives no value for the property
Missing(x) == x = None

\* Component.gcf: reading .value of a missing molecular_structure raises
\* AttributeError, multiplying by a missing density or specific_heat TypeError
ComponentGcf(self) ==
    IF Missing(self.properties.molecular_structure) THEN Raise("AttributeError")
    ELSE IF Missing(self.properties.density)
            \/ Missing(self.properties.specific_heat)
    THEN Raise("TypeError")
    ELSE Ok(Ratio(GcfScale * self.properties.molecular_structure.value,
                  self.properties.density.m * self.properties.specific_heat.m))

RECURSIVE GCDAll(_)
GCDAll(ns) == IF ns = <<>> THEN 0 ELSE GCD(Head(ns), GCDAll(Tail(ns)))

\* the quantities of the components relative to one another, as whole
\* numbers in lowest terms (fractions are taken to the ppm)
Weights(components) ==
    LET ppms == [i \in DOMAIN components |-> Fraction(components[i]).ppm]
        g    == GCDAll(ppms)
    IN  [i \in DOMAIN components |-> IF g = 0 THEN 0 ELSE ppms[i] \div g]

RECURSIVE SumInts(_)
SumInts(ns) == IF ns = <<>> THEN 0 ELSE Head(ns) + SumInts(Tail(ns))

\* MixtureGcf summing over self.components only
MixtureGcf_SkipsBalance(self) ==
    LET components == self.components
        w == Weights(components)
    IN  IF \E i \in DOMAIN components :
              Missing(components[i].properties.molecular_structure)
        THEN Raise("AttributeError")
        ELSE IF \E i \in DOMAIN components :
                   \/ Missing(components[i].properties.density)
                   \/ Missing(components[i].properties.specific_heat)
        THEN Raise("TypeError")
        ELSE LET structure == SumInts([i \in DOMAIN components |->
                        w[i] * components[i].properties.molecular_structure.value])
                 heat == SumInts([i \in DOMAIN components |->
                        w[i] * components[i].properties.density.m
                             * components[i].properties.specific_heat.m])
             IN  IF heat = 0 THEN Raise("ZeroDivisionError")
                 ELSE Ok(Ratio(GcfScale * structure, heat))

\* Mixture.gcf
MixtureGcf(self) ==
    LET components == self.components \o <<self.balance>>
        w == Weights(components)
    IN  IF \E i \in DOMAIN components :
              Missing(components[i].properties.molecular_structure)
        THEN Raise("AttributeError")
        ELSE IF \E i \in DOMAIN components :
                   \/ Missing(components[i].properties.density)
                   \/ Missing(components[i].properties.specific_heat)
        THEN Raise("TypeError")
        ELSE LET structure == SumInts([i \in DOMAIN components |->
                        w[i] * components[i].properties.molecular_structure.value])
                 heat == SumInts([i \in DOMAIN components |->
                        w[i] * components[i].properties.density.m
                             * components[i].properties.specific_heat.m])
             IN  IF heat = 0 THEN Raise("ZeroDivisionError")
                 ELSE Ok(Ratio(GcfScale * structure, heat))

\* Mixture.is_humid
IsHumid(self) ==
    \/ \E i \in DOMAIN self.components : self.components[i].properties.humid
    \/ self.balance.properties.humid

RECURSIVE HumidSum(_)
\* the loop of humid_ratio: ratio += component.quantity for humid components
HumidSum(components) ==
    IF components = <<>> THEN Zero
    ELSE IF Head(components).properties.humid
         THEN NumAdd(Fraction(Head(components)), HumidSum(Tail(components)))
         ELSE HumidSum(Tail(components))

\* HumidRatio counting a humid balance too
HumidRatio_IncludesBalance(self) ==
    to(Quantity(HumidSum(self.components \o <<self.balance>>), dimensionless),
       "pct")

\* Mixture.humid_ratio
HumidRatio(self) ==
    to(Quantity(HumidSum(self.components), dimensionless), "pct")

\* IsInert looking at the components only
IsInert_IgnoresBalance(self) ==
    \A i \in DOMAIN self.components : self.components[i].properties.inert

\* Mixture.is_inert
IsInert(self) ==
    /\ \A i \in DOMAIN self.components : self.components[i].properties.inert
    /\ self.balance.properties.inert

RECURSIVE ParseTokens_CaseSensitive(_, _, _)
\* ParseTokens looking the name up as written (no lower-casing, no key
\* normalisation)
ParseTokens_CaseSensitive(reg, gases, gas_list) ==
    IF gas_list = <<>> THEN Ok(gases)
    ELSE LET gas_str == Head(gas_list)
             concentration == IF gas_str.matched THEN gas_str.concentration
                              ELSE Quantity(One, dimensionless)
             gas_name == gas_str.name
         IN  IF gas_name \notin DOMAIN reg
             THEN RaiseWith("UnknownGas",
                            [gas_name |-> gas_name, gas_str |-> gas_str])
             ELSE LET c == ComponentNew(concentration, reg[gas_name])
                  IN  IF c.err # "none" THEN c
                      ELSE ParseTokens_CaseSensitive(reg, Append(gases, c.val),
                                                     Tail(gas_list))

RECURSIVE ParseTokens_BareIsAbsent(_, _, _)
\* ParseTokens giving a token without a concentration the concentration 0
ParseTokens_BareIsAbsent(reg, gases, gas_list) ==
    IF gas_list = <<>> THEN Ok(gases)
    ELSE LET gas_str == Head(gas_list)
             concentration == IF gas_str.matched THEN gas_str.concentration
                              ELSE Quantity(Zero, dimensionless)
             gas_name == gas_str.name
         IN  IF ~Contains(reg, gas_name)
             THEN RaiseWith("UnknownGas",
                            [gas_name |-> gas_name, gas_str |-> gas_str])
             ELSE LET c == ComponentNew(concentration, GetItem(reg, gas_name))
                  IN  IF c.err # "none" THEN c
                      ELSE ParseTokens_BareIsAbsent(reg, Append(gases, c.val),
                                                    Tail(gas_list))

RECURSIVE ParseTokens(_, _, _)
\* the loop of from_str over the tokens; a token is the outcome of matching
\* _GAS_CONCENTRATION_PATTERN: [matched, concentration, name]
ParseTokens(reg, gases, gas_list) ==
    IF gas_list = <<>> THEN Ok(gases)
    ELSE LET gas_str == Head(gas_list)
             concentration == IF gas_str.matched THEN gas_str.concentration
                              ELSE Quantity(One, dimensionless)
             gas_name == gas_str.name
         IN  IF ~Contains(reg, gas_name)
             THEN RaiseWith("UnknownGas",
                            [gas_name |-> gas_name, gas_str |-> gas_str])
             ELSE LET c == ComponentNew(concentration, GetItem(reg, gas_name))
                  IN  IF c.err # "none" THEN c
                      ELSE ParseTokens(reg, Append(gases, c.val), Tail(gas_list))

\* FromStr keeping the concentration written in the last token as the balance
FromStr_KeepsLast(reg, gas_list) ==
    LET gases == ParseTokens(reg, <<>>, gas_list)
    IN  IF gases.err # "none" THEN gases
        ELSE MixtureNew(SubSeq(gases.val, 1, Len(gases.val) - 1),
                        gases.val[Len(gases.val)])

\* Mixture.from_str
FromStr(reg, gas_list) ==
    LET gases == ParseTokens(reg, <<>>, gas_list)
    IN  IF gases.err # "none" THEN gases
        ELSE AutoBalance(SubSeq(gases.val, 1, Len(gases.val) - 1),
                         gases.val[Len(gases.val)].properties)

RECURSIVE strip(_)
\* str.strip() of a text without inner leading or trailing blanks
strip(x) ==
    IF x # <<>> /\ Head(x) = " " THEN strip(Tail(x))
    ELSE IF x # <<>> /\ x[Len(x)] = " " THEN strip(SubSeq(x, 1, Len(x) - 1))
    ELSE x

\* str.lower()
lower_str(x) == [i \in DOMAIN x |-> lower(x[i])]

balance_str == <<"b","a","l","a","n","c","e">>

RECURSIVE ParseMapping(_, _, _, _)
\* the loop of from_dict over the items of gas_mapping; an item is
\* [name, text, concentration]: text is the value of the mapping (None, or
\* a string) and concentration the Quantity that string parses to
ParseMapping(reg, balance, components, items) ==
    IF items = <<>>
    THEN IF balance = None THEN Raise("GasError")
         ELSE AutoBalance(components, balance)
    ELSE LET item == Head(items)
         IN  IF ~Contains(reg, item.name) THEN Raise("KeyError")
             ELSE IF item.text = None THEN Raise("AttributeError")
             ELSE IF lower_str(strip(item.text)) = balance_str
             THEN IF balance # None THEN Raise("GasError")
                  ELSE ParseMapping(reg, GetItem(reg, item.name), components,
                                    Tail(items))
             ELSE LET c == ComponentNew(item.concentration,
                                        GetItem(reg, item.name))
                  IN  IF c.err # "none" THEN c
                      ELSE ParseMapping(reg, balance, Append(components, c.val),
                                        Tail(items))

\* Mixture.from_dict
FromDict(reg, gas_mapping) == ParseMapping(reg, None, <<>>, gas_mapping)

----------------------------------------------------------------------------
(* State machine: a client holding Mixture objects and calling the API *)

Slots == {"a", "b"}

MaxGen == 1     \* a mixture is the product of at most this many scalings
MaxLen == 2     \* longest components list a Component is appended to

Held == {s \in Slots : heap[s] # None}

Init ==
    /\ registry = RegistryInit(<<>>, InitialGases)
    /\ heap = [s \in Slots |-> None]
    /\ gen = [s \in Slots |-> 0]
    /\ result = [op |-> "init", args |-> None, err |-> "none",
                 ref |-> "none", fresh |-> FALSE, val |-> None]

\* the call op(args) returned r, a new Mixture, or raised; the client binds
\* the new object to slot dst, or drops it at once (dst = "none")
ReturnsNew(op, args, dst, r, g) ==
    LET bound == r.err = "none" /\ dst # "none"
    IN  /\ result' = [op |-> op, args |-> args, err |-> r.err,
                      ref |-> IF bound THEN dst ELSE "none",
                      fresh |-> (r.err = "none"),
                      val |-> IF bound THEN None ELSE r.val]
        /\ heap' = IF bound THEN [heap EXCEPT ![dst] = r.val] ELSE heap
        /\ gen' = IF bound THEN [gen EXCEPT ![dst] = g] ELSE gen
        /\ UNCHANGED registry

\* gas.Component(quantity, properties)
NewComponent(quantity, properties) ==
    LET r == ComponentNew(quantity, properties)
    IN  /\ result' = [op |-> "Component",
                      args |-> [quantity |-> quantity, properties |-> properties],
                      err |-> r.err, ref |-> "none", fresh |-> FALSE,
                      val |-> r.val]
        /\ UNCHANGED <<registry, heap, gen>>

\* gas.Mixture(components, balance)
Construct(dst, components, balance) ==
    /\ dst \in Slots \cup {"none"}
    /\ ReturnsNew("Mixture", [components |-> components, balance |-> balance],
                  dst, MixtureNew(components, balance), 0)

\* gas.Mixture.auto_balance(components, balance)
CallAutoBalance(dst, components, balance) ==
    /\ dst \in Slots \cup {"none"}
    /\ ReturnsNew("auto_balance",
                  [components |-> components, balance |-> balance],
                  dst, AutoBalance(components, balance), 0)

\* gas.Mixture.from_str(gas_list_str)
CallFromStr(dst, gas_list) ==
    /\ dst \in Slots \cup {"none"}
    /\ ReturnsNew("from_str", [gas_list |-> gas_list],
                  dst, FromStr(registry, gas_list), 0)

\* gas.Mixture.from_dict(gas_mapping)
CallFromDict(dst, gas_mapping) ==
    /\ dst \in Slots \cup {"none"}
    /\ ReturnsNew("from_dict", [gas_mapping |-> gas_mapping],
                  dst, FromDict(registry, gas_mapping), 0)

\* heap[self] * other, other * heap[self]
CallMul(dst, self, other) ==
    /\ self \in Held
    /\ gen[self] < MaxGen
    /\ ReturnsNew("mul", [self |-> self, other |-> other],
                  dst, Mul(heap[self], other), gen[self] + 1)

\* heap[self] + heap[other]
CallAddMixture(dst, self, other) ==
    /\ self \in Held /\ other \in Held
    /\ ReturnsNew("add", [self |-> self, other |-> other],
                  dst, AddMixture(heap[self], heap[other]),
                  (IF gen[self] < gen[other] THEN gen[other] ELSE gen[self]) + 1)

\* k1 * heap[a] + k2 * heap[b], evaluated left to right
CallBlend(k1, a, k2, b) ==
    /\ a \in Held /\ b \in Held
    /\ LET x == Mul(heap[a], k1)
           y == Mul(heap[b], k2)
           r == IF x.err # "none" THEN x
                ELSE IF y.err # "none" THEN y
                ELSE AddMixture(x.val, y.val)
       IN  ReturnsNew("blend", [k1 |-> k1, a |-> a, k2 |-> k2, b |-> b],
                      "none", r, 0)

\* heap[self] + other for a Component other: appends in place, returns self
CallAddComponent(self, other) ==
    /\ self \in Held
    /\ Len(heap[self].components) < MaxLen
    /\ heap' = [heap EXCEPT ![self] = AppendComponent(@, other)]
    /\ result' = [op |-> "add_component", args |-> [self |-> self, other |-> other],
                  err |-> "none", ref |-> self, fresh |-> FALSE, val |-> None]
    /\ UNCHANGED <<registry, gen>>

\* gas.registry.register(item)
Register(item) ==
    /\ registry' = register(registry, item)
    /\ result' = [op |-> "register", args |-> [item |-> item], err |-> "none",
                  ref |-> "none", fresh |-> FALSE, val |-> None]
    /\ UNCHANGED <<heap, gen>>

\* item in gas.registry
CallContains(item) ==
    /\ result' = [op |-> "contains", args |-> [item |-> item], err |-> "none",
                  ref |-> "none", fresh |-> FALSE,
                  val |-> Contains(registry, item)]
    /\ UNCHANGED <<registry, heap, gen>>

\* gas.registry[item]: a key the dict does not hold raises KeyError
CallGetItem(item) ==
    /\ result' = IF safe_key(item) \in DOMAIN registry
                 THEN [op |-> "getitem", args |-> [item |-> item],
                       err |-> "none", ref |-> "none", fresh |-> FALSE,
                       val |-> GetItem(registry, item)]
                 ELSE [op |-> "getitem", args |-> [item |-> item],
                       err |-> "KeyError", ref |-> "none", fresh |-> FALSE,
                       val |-> None]
    /\ UNCHANGED <<registry, heap, gen>>

\* reading a property of heap[self]: its value, or the error it raised
Reads(op, self, r) ==
    /\ self \in Held
    /\ result' = [op |-> op, args |-> [self |-> self], err |-> r.err,
                  ref |-> "none", fresh |-> FALSE, val |-> r.val]
    /\ UNCHANGED <<registry, heap, gen>>

\* heap[self].gcf
CallGcf(self) ==
    /\ self \in Held
    /\ Reads("gcf", self, MixtureGcf(heap[self]))

\* heap[self].is_humid
CallIsHumid(self) ==
    /\ self \in Held
    /\ Reads("is_humid", self, Ok(IsHumid(heap[self])))

\* heap[self].humid_ratio
CallHumidRatio(self) ==
    /\ self \in Held
    /\ Reads("humid_ratio", self, Ok(HumidRatio(heap[self])))

\* heap[self].is_inert
CallIsInert(self) ==
    /\ self \in Held
    /\ Reads("is_inert", self, Ok(IsInert(heap[self])))

\* component.gcf
CallComponentGcf(component) ==
    LET r == ComponentGcf(component)
    IN  /\ result' = [op |-> "component_gcf", args |-> [self |-> component],
                      err |-> r.err, ref |-> "none", fresh |-> FALSE,
                      val |-> r.val]
        /\ UNCHANGED <<registry, heap, gen>>

\* Component(qa, pa) == Component(qb, pb), and the hashes of the two
CallComponentEq(qa, pa, qb, pb) ==
    LET a == ComponentNew(qa, pa)
        b == ComponentNew(qb, pb)
    IN  /\ a.err = "none" /\ b.err = "none"
        /\ result' = [op |-> "component_eq",
                      args |-> [a |-> a.val, b |-> b.val, qa |-> qa, qb |-> qb],
                      err |-> "none", ref |-> "none", fresh |-> FALSE,
                      val |-> [eq |-> ComponentEq(a.val, b.val),
                               hash_a |-> ComponentHash(a.val),
                               hash_b |-> ComponentHash(b.val)]]
        /\ UNCHANGED <<registry, heap, gen>>

\* other * component, other the float n/d
CallComponentRMul(component, other) ==
    LET r == ComponentRMul(component, other.n, other.d)
    IN  /\ other.type = "float"
        /\ result' = [op |-> "component_rmul",
                      args |-> [self |-> component, other |-> other],
                      err |-> r.err, ref |-> "none", fresh |-> FALSE,
                      val |-> r.val]
        /\ UNCHANGED <<registry, heap, gen>>

----------------------------------------------------------------------------
(* Inputs *)

MaxInput  == 2  \* longest components list passed to a constructor
MaxTokens == 2  \* most comma-separated tokens of a from_str text

SeqsUpTo(S, n) == UNION {[1..k -> S] : k \in 0..n}

Float(u, p) == Quantity(Num(u, p), dimensionless)      \* the float u*1e-6 + p*1e-12
Percent(n)  == Quantity(Num(n * PPM, 0), "pct")        \* "n %"

hydrogen == <<"h","y","d","r","o","g","e","n">>
methane  == <<"m","e","t","h","a","n","e">>
air      == <<"a","i","r">>
nitrogen == <<"n","i","t","r","o","g","e","n">>
soup     == <<"s","o","u","p">>

\* a token matching the pattern, and one that does not
Token(concentration, name) ==
    [matched |-> TRUE, concentration |-> concentration, name |-> name]
BareToken(name) ==
    [matched |-> FALSE, concentration |-> None, name |-> name]

\* an item of the mapping given to from_dict
Item(name, text, concentration) ==
    [name |-> name, text |-> text, concentration |-> concentration]

\* a valid Component
C(quantity, properties) == ComponentNew(quantity, properties).val

\* scalars
Real(n, d)    == [type |-> "float", n |-> n, d |-> d, units |-> dimensionless]
Integer(n)    == [type |-> "int", n |-> n, d |-> 1, units |-> dimensionless]
Measure(n, u) == [type |-> "Quantity", n |-> n, d |-> 1, units |-> u]
Text          == [type |-> "str", n |-> 0, d |-> 1, units |-> dimensionless]

(* inputs of the client that combines mixtures *)
SeedTexts ==
    {<<Token(Percent(1), hydrogen), BareToken(air)>>,
     <<Token(Percent(1), methane), BareToken(air)>>,
     <<Token(Percent(1), hydrogen), BareToken(nitrogen)>>}

SeedMappings ==
    {<<Item(methane, <<"1","%">>, Percent(1)),
       Item(air, balance_str, None)>>}

Scalars == {Real(1, 4), Real(3, 4), Real(2, 1), Real(0 - 1, 1)}

AddedComponents == {C(Percent(100), Hydrogen)}

(* inputs of the constructors *)
InputQuantities ==
    {Float(0, 0), Float(0, 1), Float(0 - 1, PPM - 1), Float(10000, 0),
     Float(0 - 10000, 0), Float(1, 0), Float(100, 0), Float(99, 999999),
     Float(0, 999999),
     Percent(1), Percent(0 - 1), Percent(50), Percent(100), Percent(101),
     Quantity(Num(12 * PPM, 0), "ppm"), Quantity(Num(PPM, 0), "ppb"),
     Quantity(Num(2 * PPM, 0), "m")}

Gases == {Air, Hydrogen, Methane, Nitrogen}

InputComponents ==
    {C(Float(0, 1), Hydrogen), C(Percent(1), Hydrogen), C(Percent(100), Hydrogen),
     C(Percent(50), Methane), C(Float(0, 0), Methane)}

BalanceComponents ==
    {C(Percent(50), Air), C(Percent(100), Air),
     C(Float(PPM, 1), Nitrogen)}

InputTokens ==
    {Token(Percent(50), methane), Token(Percent(101), hydrogen),
     Token(Percent(99), <<"A","i","r">>), Token(Percent(1), soup), Token(Quantity(Num(2 * PPM, 0), "m"), air),
     BareToken(air)}

InputItems ==
    {Item(hydrogen, <<"1","%">>, Percent(1)),
     Item(methane, <<"1","0","1","%">>, Percent(101)),
     Item(air, balance_str, None),
     Item(<<"H","e","l","i","u","m">>, <<" ","B","a","l","a","n","c","E">>, None),
     Item(nitrogen, None, None),
     Item(soup, <<"1","%">>, Percent(1))}

\* a dict holds each key once
DistinctNames(mapping) ==
    \A i, j \in DOMAIN mapping : mapping[i].name = mapping[j].name => i = j

InputMappings == {mapping \in SeqsUpTo(InputItems, MaxInput) : DistinctNames(mapping)}

(* inputs of the client of the registry *)
carbon_dioxide == <<"c","a","r","b","o","n"," ","d","i","o","x","i","d","e">>

\* entries a client registers: the catalog's own Carbon-dioxide, another
\* entry whose name has the same key, a new gas, and Air under another case
Dry_ice == GasProperties(carbon_dioxide, "None", TRIATOMIC,
                         cal_per_g(2016), g_per_L(19640), FALSE, FALSE)
Soup    == GasProperties(<<"S","o","u","p">>, "None", None, None, None,
                         FALSE, FALSE)
AIR     == GasProperties(<<"A","I","R">>, "None", DIATOMIC,
                         cal_per_g(2400), g_per_L(12930), FALSE, FALSE)

RegisteredItems == {Carbon_dioxide, Dry_ice, Soup, AIR}

InputNames ==
    {Carbon_dioxide.name, carbon_dioxide,
     <<"c","a","r","b","o","n","_","d","i","o","x","i","d","e">>,
     <<"C","A","R","B","O","N","-","D","I","O","X","I","D","E">>,
     soup, air, <<"n","e","o","n">>}

RegistryMappings ==
    {<<Item(soup, <<"1","%">>, Percent(1)), Item(air, balance_str, None)>>,
     <<Item(carbon_dioxide, <<"1","%">>, Percent(1)),
       Item(<<"S","O","U","P">>, balance_str, None)>>,
     <<Item(air, balance_str, None)>>}

(* inputs of the client that reads properties *)
helium        == <<"h","e","l","i","u","m">>
ammonia       == <<"a","m","m","o","n","i","a">>
humid_air     == <<"h","u","m","i","d"," ","a","i","r">>
nitric_oxides == <<"n","i","t","r","i","c","-","o","x","i","d","e","s">>

ReadTexts ==
    {<<BareToken(air)>>, <<BareToken(helium)>>, <<BareToken(ammonia)>>,
     <<BareToken(nitric_oxides)>>,
     <<Token(Percent(2), hydrogen), BareToken(air)>>,
     <<Token(Percent(2), hydrogen), BareToken(humid_air)>>,
     <<Token(Percent(2), nitric_oxides), BareToken(air)>>,
     <<Token(Percent(50), humid_air), BareToken(air)>>,
     <<Token(Percent(50), air), Token(Percent(25), humid_air),
       BareToken(humid_air)>>}

ReadComponents ==
    {C(Percent(100), Air), C(Percent(1), Air), C(Percent(100), Helium),
     C(Percent(100), Ammonia), C(Percent(100), Nitric_oxides)}

(* inputs of the client of Component *)
ComparedQuantities ==
    {Percent(1), Float(10000, 0), Float(10000, 1), Float(1, 0),
     Quantity(Num(PPM, 0), "ppm"), Quantity(Num(1000 * PPM, 0), "ppb"),
     Quantity(Num(PPM, 0), "ppb"), Quantity(Num(PPM + 400, 0), "ppb"),
     Quantity(Num(PPM + 600, 0), "ppb"), Float(0, 1000), Float(0, 0)}

ComparedGases == {Hydrogen, Methane}

ScaledComponents ==
    {C(Percent(1), Hydrogen), C(Float(100, 0), Hydrogen),
     C(Float(1, 0), Methane), C(Float(0, 1), Methane), C(Float(0, 0), Air)}

ComponentScalars ==
    {Real(1, 4), Real(1, 2), Real(2, 1), Real(100, 1), Real(0, 1),
     Real(0 - 1, 1), Real(0 - 1, 4)}

(* inputs of the client that blends mixtures *)
BlendComponents ==
    {<<C(Percent(50), Hydrogen), C(Percent(50), Methane)>>,
     <<C(Percent(100), Nitrogen)>>,
     <<C(Float(0, 1), Hydrogen), C(Percent(100), Hydrogen)>>}

BlendTexts ==
    {<<Token(Percent(1), hydrogen), BareToken(air)>>,
     <<Token(Percent(1), hydrogen), BareToken(nitrogen)>>,
     <<Token(Percent(101), hydrogen), BareToken(air)>>,
     <<BareToken(nitrogen), Token(Float(0, 1), hydrogen), BareToken(air)>>,
     <<Token(Percent(1), soup), BareToken(air)>>}

BlendMappings ==
    {<<Item(methane, <<"1","%">>, Percent(1)), Item(air, balance_str, None)>>,
     <<Item(methane, <<"1","0","1","%">>, Percent(101)),
       Item(air, balance_str, None)>>,
     <<Item(soup, <<"1","%">>, Percent(1)), Item(air, balance_str, None)>>,
     <<Item(methane, <<"1","%">>, Percent(1))>>}

BlendQuantities == {Percent(1), Float(0 - 1, 0)}

Weights2 == {Real(5, 6), Real(1, 6), Real(1, 4), Real(3, 4)}

BlendScalars ==
    Weights2 \cup {Real(1, 2), Measure(50, "pct"), Measure(2, "m"),
                   Measure(1, dimensionless), Text, Integer(2), Real(0 - 1, 1)}

----------------------------------------------------------------------------
(* Specifications *)

\* a client that builds mixtures and combines them
Next ==
    \/ \E dst \in Slots :
          Construct(dst, <<C(Float(0, 1), Hydrogen)>>, C(Percent(100), Air))
    \/ \E dst \in Slots :
          CallAutoBalance(dst, <<C(Percent(1), Hydrogen)>>, Nitrogen)
    \/ \E dst \in Slots, text \in SeedTexts : CallFromStr(dst, text)
    \/ \E dst \in Slots, mapping \in SeedMappings : CallFromDict(dst, mapping)
    \/ \E dst \in Slots, self \in Slots, other \in Scalars :
          CallMul(dst, self, other)
    \/ \E self \in Slots, other \in Slots :
          CallAddMixture("none", self, other)
    \/ \E other \in AddedComponents : CallAddComponent("a", other)

Spec == Init /\ [][Next]_vars

\* a client that only constructs, from a wide range of inputs
NextConstruct ==
    \/ \E q \in InputQuantities, g \in Gases : NewComponent(q, g)
    \/ \E components \in SeqsUpTo(InputComponents, MaxInput),
          balance \in BalanceComponents :
          Construct("none", components, balance)
    \/ \E components \in SeqsUpTo(InputComponents, MaxInput),
          balance \in {Air, Nitrogen} :
          CallAutoBalance("none", components, balance)
    \/ \E text \in SeqsUpTo(InputTokens, MaxTokens) \ {<<>>} :
          CallFromStr("none", text)
    \/ \E mapping \in InputMappings : CallFromDict("none", mapping)

SpecConstruct == Init /\ [][NextConstruct]_vars

\* a client that registers gases and looks names up
NextRegistry ==
    \/ \E item \in RegisteredItems : Register(item)
    \/ \E item \in InputNames : CallContains(item)
    \/ \E item \in InputNames : CallGetItem(item)
    \/ \E mapping \in RegistryMappings : CallFromDict("none", mapping)

SpecRegistry == Init /\ [][NextRegistry]_vars

\* a client that parses mixtures and reads their properties
NextRead ==
    \/ \E dst \in Slots, text \in ReadTexts : CallFromStr(dst, text)
    \/ \E component \in ReadComponents : CallComponentGcf(component)
    \/ \E self \in Slots : CallGcf(self)
    \/ \E self \in Slots : CallIsHumid(self)
    \/ \E self \in Slots : CallHumidRatio(self)
    \/ \E self \in Slots : CallIsInert(self)

SpecRead == Init /\ [][NextRead]_vars

\* a client that builds, compares and scales Components
NextComponent ==
    \/ \E q \in ComparedQuantities, g \in ComparedGases : NewComponent(q, g)
    \/ \E qa \in ComparedQuantities, qb \in ComparedQuantities,
          pa \in ComparedGases, pb \in ComparedGases :
          CallComponentEq(qa, pa, qb, pb)
    \/ \E c \in ScaledComponents, k \in ComponentScalars :
          CallComponentRMul(c, k)

SpecComponent == Init /\ [][NextComponent]_vars

\* a client that builds mixtures, scales them and blends them by weights,
\* from inputs of which many are rejected
NextBlend ==
    \/ \E q \in BlendQuantities : NewComponent(q, Hydrogen)
    \/ Construct("none", <<C(Percent(1), Hydrogen)>>, C(Percent(99), Air))
    \/ Construct("none", <<C(Percent(1), Hydrogen)>>, C(Percent(100), Air))
    \/ \E dst \in Slots, components \in BlendComponents :
          CallAutoBalance(dst, components, Air)
    \/ \E text \in BlendTexts : CallFromStr("b", text)
    \/ \E mapping \in BlendMappings : CallFromDict("none", mapping)
    \/ \E self \in Slots, other \in BlendScalars : CallMul("none", self, other)
    \/ \E self \in Slots, other \in Slots : CallAddMixture("none", self, other)
    \/ \E k1 \in Weights2, k2 \in Weights2, a \in Slots, b \in Slots :
          CallBlend(k1, a, k2, b)
    \/ Register(Soup)

SpecBlend == Init /\ [][NextBlend]_vars

----------------------------------------------------------------------------
(* Properties *)

\* the Mixture object the last call returned
Returned == IF result.ref # "none" THEN heap[result.ref] ELSE result.val

\* every Mixture object that exists
Mixtures ==
    {heap[s] : s \in Held} \cup
    (IF result.fresh /\ result.ref = "none" THEN {result.val} ELSE {})

Total(m) == NumAdd(Fraction(m.balance), SumFractions(m.components))

Range(seq) == {seq[i] : i \in DOMAIN seq}

Count(x, seq) == Cardinality({i \in DOMAIN seq : seq[i] = x})

SameMultiset(s, t) ==
    /\ Len(s) = Len(t)
    /\ \A x \in Range(s) \cup Range(t) : Count(x, s) = Count(x, t)

IsSortedDescending(components) ==
    \A i \in 1..(Len(components) - 1) :
        NumLe(Fraction(components[i + 1]), Fraction(components[i]))

ArithmeticOps == {"mul", "add", "add_component"}

C2_ComponentsSorted ==
    \A m \in Mixtures : IsSortedDescending(m.components)

C5_AutoBalanceFillsRemainder ==
    (result.op = "auto_balance" /\ result.err = "none") =>
        /\ SameMultiset(Returned.components, result.args.components)
        /\ Returned.balance.properties = result.args.balance
        /\ Fraction(Returned.balance) =
               NumSub(One, SumFractions(result.args.components))
        /\ Total(Returned) = One

\* auto_balance of two components given in ascending order, balance above 0
C5_Witness ==
    /\ result.op = "auto_balance" /\ result.err = "none"
    /\ Len(Returned.components) = 2
    /\ Returned.components # result.args.components
    /\ NumLt(Zero, Fraction(Returned.balance))

\* the concentration from_str gives a token
TokenFraction(token) ==
    IF token.matched THEN m_as_dimensionless(token.concentration) ELSE One

RECURSIVE SumTokens(_)
SumTokens(gas_list) ==
    IF gas_list = <<>> THEN Zero
    ELSE NumAdd(TokenFraction(Head(gas_list)), SumTokens(Tail(gas_list)))

\* the fractions of the trace tokens (all but the last) of a text
TraceSum(gas_list) == SumTokens(SubSeq(gas_list, 1, Len(gas_list) - 1))

AllKnown(gas_list) ==
    \A i \in DOMAIN gas_list : Contains(registry, gas_list[i].name)

\* the quantity from_str reads from a token
TokenQuantity(token) ==
    IF token.matched THEN token.concentration ELSE Quantity(One, dimensionless)

\* the quantity written in every token of the list is a concentration
Concentrations(gas_list) ==
    \A i \in DOMAIN gas_list : IsDimensionless(TokenQuantity(gas_list[i]))

\* C6: from_str of trace components summing to more than 100% (and
\* auto_balance of such components) fails with CalculationError and returns
\* no Mixture; the tokens name known gases and carry concentrations.
C6_OverLimitFails ==
    /\ (/\ result.op = "from_str"
        /\ AllKnown(result.args.gas_list)
        /\ Concentrations(result.args.gas_list)
        /\ NumLt(One, TraceSum(result.args.gas_list)))
          => (IsError(result.err, "CalculationError")
              /\ ~result.fresh /\ result.ref = "none" /\ result.val = None)
    /\ (/\ result.op = "auto_balance"
        /\ NumLt(One, SumFractions(result.args.components)))
          => (IsError(result.err, "CalculationError")
              /\ ~result.fresh /\ result.ref = "none" /\ result.val = None)

\* from_str("101% hydrogen, air") has failed
C6_Witness ==
    /\ result.op = "from_str"
    /\ result.args.gas_list = <<Token(Percent(101), hydrogen), BareToken(air)>>
    /\ result.err # "none"

\* C7: mixture + mixture fails with MixingError exactly when the balance
\* species of the two operands differ.
C7_MixingErrorIffBalanceDiffers ==
    result.op = "add" =>
        LET a == heap[result.args.self]
            b == heap[result.args.other]
        IN  (result.err = "MixingError")
                <=> (a.balance.properties # b.balance.properties)

\* two mixtures with the same components and different balance species
C7_Witness ==
    /\ result.op = "add" /\ result.err = "MixingError"
    /\ heap[result.args.self].components = heap[result.args.other].components

SpeciesOf(components) == {components[i].properties : i \in DOMAIN components}

\* the sum of the fractions of the components of one species
FractionOfSpecies(components, properties) ==
    SumFractions(SelectSeq(components, LAMBDA c : c.properties = properties))

\* C8: when a + b returns, every species among the components of a or b is
\* in exactly one component of the result, with the sum of its fractions
\* over both operands, and the balance is the shared balance species at
\* 1 minus the sum of the merged fractions.
C8_AddMergesBySpecies ==
    (result.op = "add" /\ result.err = "none") =>
        LET a   == heap[result.args.self]
            b   == heap[result.args.other]
            all == a.components \o b.components
            r   == Returned
        IN  /\ SpeciesOf(r.components) = SpeciesOf(all)
            /\ Len(r.components) = Cardinality(SpeciesOf(all))
            /\ \A i \in DOMAIN r.components :
                  Fraction(r.components[i]) =
                      FractionOfSpecies(all, r.components[i].properties)
            /\ r.balance.properties = a.balance.properties
            /\ r.balance.properties = b.balance.properties
            /\ Fraction(r.balance) = NumSub(One, SumFractions(r.components))

\* 0.25 * "1% hydrogen, air" + 0.75 * "1% methane, air"
C8_Witness ==
    /\ result.op = "add" /\ result.err = "none"
    /\ Returned.components = <<C(Float(7500, 0), Methane),
                               C(Float(2500, 0), Hydrogen)>>
    /\ Returned.balance = C(Float(990000, 0), Air)

RECURSIVE SumNums(_)
SumNums(nums) ==
    IF nums = <<>> THEN Zero ELSE NumAdd(Head(nums), SumNums(Tail(nums)))

\* species and fraction of every component, in order
Composition(components) ==
    [i \in DOMAIN components |->
        [properties |-> components[i].properties,
         fraction   |-> Fraction(components[i])]]

\* C9: k * m returns a Mixture whose components are those of m with every
\* fraction multiplied by k, and whose balance is the balance of m, unchanged;
\* the total is k * (sum of the components of m) + the balance of m.
C9_ScaleKeepsBalance ==
    [][(result'.op = "mul" /\ result'.err = "none") =>
        LET m == heap[result'.args.self]
            k == result'.args.other
            r == IF result'.ref # "none" THEN heap'[result'.ref]
                 ELSE result'.val
            scaled == [i \in DOMAIN m.components |->
                         [properties |-> m.components[i].properties,
                          fraction   |-> NumScale(Fraction(m.components[i]),
                                                  k.n, k.d)]]
        IN  /\ SameMultiset(Composition(r.components), scaled)
            /\ IsSortedDescending(r.components)
            /\ r.balance = m.balance
            /\ Total(r) = NumAdd(SumNums([i \in DOMAIN scaled |->
                                              scaled[i].fraction]),
                                 Fraction(m.balance))]_vars

\* a mixture scaled by 0.25, whose total fell below 1.0
C9_Witness ==
    /\ result.op = "mul" /\ result.err = "none"
    /\ result.args.other = Real(1, 4)
    /\ Len(Returned.components) > 0
    /\ NumLt(Total(Returned), One)
    /\ NumLt(Zero, Fraction(Returned.components[1]))

\* C10: Component(quantity, properties) fails with NegativeQuantityError, and
\* yields no Component, exactly when the quantity is negative as a fraction.
C10_NegativeQuantityRejected ==
    (result.op = "Component" /\ IsDimensionless(result.args.quantity)) =>
        /\ (result.err = "NegativeQuantityError")
               <=> NumLt(m_as_dimensionless(result.args.quantity), Zero)
        /\ (result.err = "NegativeQuantityError") => result.val = None
        /\ (result.err = "none") => result.val # None

\* a negative percentage was rejected
C10_Witness ==
    /\ result.op = "Component" /\ result.err = "NegativeQuantityError"
    /\ result.args.quantity.units = "pct"

----------------------------------------------------------------------------
(* from_str and from_dict *)

\* two characters that differ at most in letter case, or that are both one
\* of blank, hyphen and underscore
SameLetter(c, d) ==
    \/ c = d
    \/ \E i \in DOMAIN UpperCase : {c, d} = {UpperCase[i], LowerCase[i]}
    \/ {c, d} \subseteq {" ", "-", "_"}

\* two names with the same normalized form
SameName(x, y) ==
    /\ Len(x) = Len(y)
    /\ \A i \in DOMAIN x : SameLetter(x[i], y[i])

\* the registry holds an entry whose name has the normalized form of name
Catalogued(name) ==
    \E k \in DOMAIN registry : SameName(registry[k].name, name)

\* Component(quantity, species) for each of the trace tokens (all but the last)
TraceComponents(gas_list) ==
    [i \in 1..(Len(gas_list) - 1) |->
        ComponentNew(TokenQuantity(gas_list[i]),
                     GetItem(registry, gas_list[i].name))]

\* C11: for a text of n >= 1 tokens that all name known gases and carry a
\* concentration, from_str has the outcome of auto_balance(the Components of
\* the first n-1 tokens, the species of the last token): the last token is
\* the balance and the concentration written in it does not matter.
C11_LastTokenIsBalance ==
    (/\ result.op = "from_str"
     /\ AllKnown(result.args.gas_list)
     /\ Concentrations(result.args.gas_list)) =>
        LET gas_list == result.args.gas_list
            traces   == TraceComponents(gas_list)
            expected == AutoBalance([i \in DOMAIN traces |-> traces[i].val],
                                    GetItem(registry,
                                            gas_list[Len(gas_list)].name))
        IN  (\A i \in DOMAIN traces : traces[i].err = "none") =>
                /\ result.err = expected.err
                /\ result.err = "none" => Returned = expected.val

\* "50% methane, 99% Air" gave air as the balance, at 50%
C11_Witness ==
    /\ result.op = "from_str" /\ result.err = "none"
    /\ Len(result.args.gas_list) = 2
    /\ result.args.gas_list[2].matched
    /\ Returned.balance.properties = Air
    /\ Fraction(Returned.balance) # TokenFraction(result.args.gas_list[2])
    /\ Fraction(Returned.balance) = Num(500000, 0)

\* C12: from_str of tokens that carry concentrations fails with UnknownGas
\* exactly when some token, trace or balance, names a gas the catalog does
\* not hold under any letter case; the error then quotes the name and the
\* token of the first such token, and no Mixture is returned.
C12_UnknownGasRejected ==
    (result.op = "from_str" /\ Concentrations(result.args.gas_list)) =>
        LET gas_list == result.args.gas_list
            unknown  == {i \in DOMAIN gas_list : ~Catalogued(gas_list[i].name)}
        IN  /\ (result.err = "UnknownGas") <=> (unknown # {})
            /\ (unknown # {}) =>
                  LET first == CHOOSE i \in unknown : \A j \in unknown : i <= j
                  IN  /\ result.val = [gas_name |-> gas_list[first].name,
                                       gas_str  |-> gas_list[first]]
                      /\ ~result.fresh /\ result.ref = "none"

\* "99% Air, 1% soup": the balance token names an unknown gas, after a token
\* whose name is found under another letter case
C12_Witness ==
    /\ result.op = "from_str" /\ result.err = "UnknownGas"
    /\ result.args.gas_list = <<Token(Percent(99), <<"A","i","r">>),
                                Token(Percent(1), soup)>>
    /\ result.val.gas_name = soup

\* the mapping entry designates the balance: its value is 'balance' in any
\* letter case, or None
Designates(item) ==
    \/ item.text = None
    \/ /\ item.text # None
       /\ SameName(strip(item.text), balance_str)

\* the other entries of the mapping name known gases and carry
\* concentrations that are fractions between 0 and 1
PlainEntries(mapping) ==
    \A i \in DOMAIN mapping :
        /\ Catalogued(mapping[i].name)
        /\ ~Designates(mapping[i]) =>
              /\ IsDimensionless(mapping[i].concentration)
              /\ NumLe(Zero, m_as_dimensionless(mapping[i].concentration))

\* C13: from_dict succeeds only when exactly one entry of the mapping
\* designates the balance ('balance' in any letter case, or None); with no
\* such entry, or more than one, it fails with GasError.
C13_ExactlyOneBalance ==
    (result.op = "from_dict" /\ PlainEntries(result.args.gas_mapping)) =>
        LET mapping  == result.args.gas_mapping
            balances == {i \in DOMAIN mapping : Designates(mapping[i])}
        IN  /\ result.err = "none" => Cardinality(balances) = 1
            /\ Cardinality(balances) # 1 => IsError(result.err, "GasError")

\* C14: a name whose normalized form the registry does not hold fails with
\* UnknownGas, in a lookup of the registry and as a key of the mapping given
\* to from_dict.
C14_UnknownGasOnMiss ==
    /\ (result.op = "getitem" /\ ~Catalogued(result.args.item))
          => result.err = "UnknownGas"
    /\ (/\ result.op = "from_dict"
        /\ \E i \in DOMAIN result.args.gas_mapping :
              ~Catalogued(result.args.gas_mapping[i].name))
          => result.err = "UnknownGas"

\* C15: registration, membership test and lookup normalize names alike: a
\* name is found exactly when the registry holds an entry whose name has the
\* same normalized form, every name with that normalized form gets the same
\* answer, and every key is the normalized form of the name of its entry.
C15_NormalizedAlike ==
    /\ \A k \in DOMAIN registry :
          /\ SameName(k, registry[k].name)
          /\ \A i \in DOMAIN k :
                k[i] \notin {" ", "-"} \cup {UpperCase[j] : j \in DOMAIN UpperCase}
    /\ result.op = "contains" =>
          /\ result.val = Catalogued(result.args.item)
          /\ \A y \in InputNames : SameName(y, result.args.item) =>
                Contains(registry, y) = result.val
    /\ result.op = "getitem" =>
          /\ (result.err = "none") = Catalogued(result.args.item)
          /\ result.err = "none" =>
                /\ SameName(result.val.name, result.args.item)
                /\ \A y \in InputNames : SameName(y, result.args.item) =>
                      /\ Contains(registry, y)
                      /\ GetItem(registry, y) = result.val

\* 'carbon dioxide' found the catalog's entry 'Carbon-dioxide'
C15_Witness ==
    /\ result.op = "getitem" /\ result.err = "none"
    /\ result.args.item = carbon_dioxide
    /\ result.val = Carbon_dioxide

\* C16: register never fails and the last registration wins: it leaves the
\* entry under the normalized key of its name, alone under that key, every
\* other key as it was, and registering the same entry again changes
\* nothing.
C16_RegisterLastWins ==
    [][result'.op = "register" =>
        LET item == result'.args.item
            keys == {k \in DOMAIN registry' : SameName(k, item.name)}
        IN  /\ result'.err = "none"
            /\ Cardinality(keys) = 1
            /\ \A k \in keys : registry'[k] = item
            /\ GetItem(registry', item.name) = item
            /\ DOMAIN registry' = DOMAIN registry \cup keys
            /\ \A k \in DOMAIN registry \ keys : registry'[k] = registry[k]
            /\ register(registry', item) = registry']_vars

\* an entry named 'carbon dioxide' has replaced the catalog's 'Carbon-dioxide'
C16_Witness ==
    /\ result.op = "register" /\ result.args.item = Dry_ice
    /\ GetItem(registry, Carbon_dioxide.name) = Dry_ice
    /\ Cardinality(DOMAIN registry) = Len(InitialGases)

----------------------------------------------------------------------------
(* Properties of a Mixture *)

\* the components of a mixture and its balance
Members(m) == m.components \o <<m.balance>>

\* the catalog gives the species all of molecular_structure, density and
\* specific_heat
HasThermalData(properties) ==
    /\ properties.molecular_structure # None
    /\ properties.density # None
    /\ properties.specific_heat # None

\* C17: Mixture.gcf fails with CalculationError, and returns no value,
\* whenever the balance species or the species of a component lacks
\* molecular_structure, density or specific_heat.
C17_GcfMissingDataFails ==
    (/\ result.op = "gcf"
     /\ \E i \in DOMAIN Members(heap[result.args.self]) :
           ~HasThermalData(Members(heap[result.args.self])[i].properties))
        => (IsError(result.err, "CalculationError") /\ result.val = None)

\* the gas correction factor g is within 0.01 of centi / 100
About(g, centi) ==
    LET diff == 100 * g.n - centi * g.d
    IN  (IF diff < 0 THEN 0 - diff ELSE diff) <= g.d

\* 0.3106 * structure constant / (density * specific heat) of a species
SpeciesGcf(properties) ==
    Ratio(GcfScale * properties.molecular_structure.value,
          properties.density.m * properties.specific_heat.m)

\* C18: Component.gcf is 0.3106 * structure constant / (density * specific
\* heat) of its species, whatever its concentration; Mixture.gcf is
\* 0.3106 * sum(q * structure constant) / sum(q * density * specific heat)
\* over components and balance; so a Mixture with no components and its
\* balance at 100% has the gcf of its balance species (air about 1.00,
\* helium about 1.45, ammonia about 0.73).
C18_GcfFormula ==
    /\ (result.op = "component_gcf" /\ result.err = "none") =>
          LET species == result.args.self.properties
          IN  /\ result.val = SpeciesGcf(species)
              /\ species = Air     => About(result.val, 100)
              /\ species = Helium  => About(result.val, 145)
              /\ species = Ammonia => About(result.val, 73)
    /\ (result.op = "gcf" /\ result.err = "none") =>
          LET m == heap[result.args.self]
              w == Weights(Members(m))
              structure == SumInts([i \in DOMAIN w |->
                  w[i] * Members(m)[i].properties.molecular_structure.value])
              heat == SumInts([i \in DOMAIN w |->
                  w[i] * Members(m)[i].properties.density.m
                       * Members(m)[i].properties.specific_heat.m])
          IN  /\ result.val = Ratio(GcfScale * structure, heat)
              /\ (m.components = <<>> /\ Fraction(m.balance) = One) =>
                    /\ result.val = SpeciesGcf(m.balance.properties)
                    /\ result.val = ComponentGcf(m.balance).val
                    /\ m.balance.properties = Air     => About(result.val, 100)
                    /\ m.balance.properties = Helium  => About(result.val, 145)
                    /\ m.balance.properties = Ammonia => About(result.val, 73)

\* the gcf of "helium" (no components, helium at 100%) was read: about 1.45
C18_Witness ==
    /\ result.op = "gcf" /\ result.err = "none"
    /\ heap[result.args.self].components = <<>>
    /\ heap[result.args.self].balance = C(Percent(100), Helium)
    /\ About(result.val, 145)

C20_InertIffAllInert ==
    result.op = "is_inert" =>
        LET m == heap[result.args.self]
        IN  /\ result.val = (\A i \in DOMAIN Members(m) :
                                Members(m)[i].properties.inert)
            /\ m.components = <<>> => result.val = m.balance.properties.inert

\* is_inert was read as false from "helium": no components, balance not inert
C20_Witness ==
    /\ result.op = "is_inert" /\ result.val = FALSE
    /\ heap[result.args.self].components = <<>>
    /\ ~heap[result.args.self].balance.properties.inert

----------------------------------------------------------------------------
(* Components *)

\* C24: a Component that is constructed stores its quantity in percent when
\* its fraction f is at least 1e-4, in ppm when 1e-6 <= f < 1e-4, in ppb when
\* 0 < f < 1e-6, and as a plain number when f = 0; the stored quantity
\* denotes the fraction of the input.
C24_DisplayUnitByThreshold ==
    (result.op = "Component" /\ result.err = "none") =>
        LET f      == m_as_dimensionless(result.args.quantity)
            stored == result.val.quantity
        IN  /\ NumLe(Num(100, 0), f) => stored.units = "pct"
            /\ (NumLe(Num(1, 0), f) /\ NumLt(f, Num(100, 0)))
                  => stored.units = "ppm"
            /\ (NumLt(Zero, f) /\ NumLt(f, Num(1, 0))) => stored.units = "ppb"
            /\ f = Zero => stored.units = dimensionless
            /\ m_as_dimensionless(stored) = f
            /\ result.val.properties = result.args.properties

\* the float 1e-4 was stored as 0.01 percent
C24_Witness ==
    /\ result.op = "Component" /\ result.err = "none"
    /\ result.args.quantity = Float(100, 0)
    /\ result.val.quantity = Quantity(Num(10000, 0), "pct")

C25_ComponentScaleRevalidates ==
    result.op = "component_rmul" =>
        LET c == result.args.self
            k == result.args.other
            product == NumScale(Fraction(c), k.n, k.d)
            constructed == ComponentNew(Quantity(product, dimensionless),
                                        c.properties)
        IN  /\ (result.err = "NegativeQuantityError") <=> NumLt(product, Zero)
            /\ result.err = constructed.err
            /\ result.err = "none" =>
                  /\ result.val.properties = c.properties
                  /\ Fraction(result.val) = product
                  /\ result.val = constructed.val
                  /\ NumLe(Num(100, 0), product)
                        <=> result.val.quantity.units = "pct"

\* 0.25 * (0.01 percent) was stored as 25 ppm
C25_Witness ==
    /\ result.op = "component_rmul" /\ result.err = "none"
    /\ result.args.self.quantity.units = "pct"
    /\ result.args.other = Real(1, 4)
    /\ result.val.quantity = Quantity(Num(25 * PPM, 0), "ppm")

----------------------------------------------------------------------------
(* Mixing *)

\* C26: mixture + component appends the Component to the end of the
\* components list of the receiver, in place, and returns the receiver: the
\* total is not checked, the list is not sorted again and the balance is not
\* changed.
C26_AppendInPlace ==
    [][result'.op = "add_component" =>
        LET self == result'.args.self
        IN  /\ result'.err = "none"
            /\ result'.ref = self /\ ~result'.fresh
            /\ heap'[self].components
                  = Append(heap[self].components, result'.args.other)
            /\ heap'[self].balance = heap[self].balance
            /\ \A s \in Slots \ {self} : heap'[s] = heap[s]]_vars

\* the receiver after an append: over 100 percent and out of order
C26_Witness ==
    /\ result.op = "add_component"
    /\ NumLt(NumAdd(One, Tolerance), Total(heap[result.ref]))
    /\ ~IsSortedDescending(heap[result.ref].components)
    /\ Len(heap[result.ref].components) = 2

\* m with the fraction f stored in its balance
WithBalance(m, f) ==
    [m EXCEPT !.balance.quantity =
        ComponentNew(Quantity(f, dimensionless), m.balance.properties).val.quantity]

Fractions(components) ==
    [i \in DOMAIN components |-> Fraction(components[i])]

----------------------------------------------------------------------------
(* Texts without a concentration *)

\* C27: from_str takes a token that does not match the pattern as the name
\* of a gas at a concentration of 100%: a text of one such token gives a
\* Mixture with no components and that gas as its balance at 100%, and such
\* a token before the last one gives a component of fraction 1.0.
C27_BareTokenIsWholeGas ==
    (/\ result.op = "from_str"
     /\ AllKnown(result.args.gas_list)
     /\ Concentrations(result.args.gas_list)) =>
        LET gas_list == result.args.gas_list
            traces   == 1..(Len(gas_list) - 1)
            gas(i)   == GetItem(registry, gas_list[i].name)
        IN  /\ (Len(gas_list) = 1 /\ ~gas_list[1].matched) =>
                  /\ result.err = "none"
                  /\ result.val.components = <<>>
                  /\ result.val.balance.properties = gas(1)
                  /\ Fraction(result.val.balance) = One
            /\ result.err = "none" =>
                  \A i \in traces : ~gas_list[i].matched =>
                      \E j \in DOMAIN result.val.components :
                          /\ result.val.components[j].properties = gas(i)
                          /\ Fraction(result.val.components[j]) = One
            /\ (\E i \in traces : ~gas_list[i].matched) =>
                  ((result.err = "none") <=> (TraceSum(gas_list) = One))

\* from_str("air, 50% methane"): air at 100% and a balance of methane at 0
C27_Witness ==
    /\ result.op = "from_str" /\ result.err = "none"
    /\ result.args.gas_list = <<BareToken(air), Token(Percent(50), methane)>>
    /\ result.val.components = <<C(Percent(100), Air)>>
    /\ result.val.balance = C(Float(0, 0), Methane)

----------------------------------------------------------------------------
(* Scaling, blending and failures *)

\* the pure number a dimensionless Quantity scalar stands for
PureFraction(other) == Real(other.n, other.d * UnitDivisor(other.units))

IsObject(v) == "components" \in DOMAIN v \/ "quantity" \in DOMAIN v

WellFormed(mapping) ==
    /\ PlainEntries(mapping)
    /\ \A i \in DOMAIN mapping : mapping[i].text # None
    /\ Cardinality({i \in DOMAIN mapping : Designates(mapping[i])}) = 1

RECURSIVE SumConcentrations(_)
SumConcentrations(mapping) ==
    IF mapping = <<>> THEN Zero
    ELSE NumAdd(IF Designates(Head(mapping)) THEN Zero
                ELSE m_as_dimensionless(Head(mapping).concentration),
                SumConcentrations(Tail(mapping)))

\* the outcome of one that raises NegativeQuantityError, a CalculationError
RejectedAsNegative ==
    /\ result.err = "NegativeQuantityError"
    /\ IsError(result.err, "CalculationError")
    /\ ErrorBase[result.err] = "CalculationError"

\* C28: auto_balance, and with it from_str, from_dict and mixture +
\* mixture, fails with NegativeQuantityError whenever the trace fractions
\* sum to more than 1.0, by 1e-12 as by any larger amount.
C28_AnyExcessIsNegativeBalance ==
    /\ (/\ result.op = "auto_balance"
        /\ NumLt(One, SumFractions(result.args.components)))
          => RejectedAsNegative
    /\ (/\ result.op = "from_str"
        /\ AllKnown(result.args.gas_list)
        /\ Concentrations(result.args.gas_list)
        /\ NumLt(One, TraceSum(result.args.gas_list)))
          => RejectedAsNegative
    /\ (/\ result.op = "from_dict"
        /\ WellFormed(result.args.gas_mapping)
        /\ NumLt(One, SumConcentrations(result.args.gas_mapping)))
          => RejectedAsNegative
    /\ result.op = "add" =>
          LET a == heap[result.args.self]
              b == heap[result.args.other]
          IN  (/\ a.balance.properties = b.balance.properties
               /\ NumLt(One, SumFractions(a.components \o b.components)))
                 => RejectedAsNegative
    /\ result.op = "blend" =>
          LET x == Mul(heap[result.args.a], result.args.k1)
              y == Mul(heap[result.args.b], result.args.k2)
          IN  (/\ x.err = "none" /\ y.err = "none"
               /\ x.val.balance.properties = y.val.balance.properties
               /\ NumLt(One, SumFractions(x.val.components \o y.val.components)))
                 => RejectedAsNegative

\* auto_balance of traces summing to 1.0 + 1e-12 has failed
C28_Witness ==
    /\ result.op = "auto_balance"
    /\ SumFractions(result.args.components) = NumAdd(One, Tolerance)
    /\ result.err = "NegativeQuantityError"

\* the float k is not negative, and k1 + k2 is at most 1
NonNegative(k) == k.type = "float" /\ k.n >= 0 /\ k.d > 0
SumAtMostOne(k1, k2) == k1.n * k2.d + k2.n * k1.d <= k1.d * k2.d

\* a Mixture with no negative fraction and a total of at most 1.0
Proper(m) ==
    /\ NumLe(Zero, Fraction(m.balance))
    /\ \A i \in DOMAIN m.components : NumLe(Zero, Fraction(m.components[i]))
    /\ NumLe(Total(m), One)

\* C29: for Mixtures A and B of one balance species, with no negative
\* fraction and totals of at most 1.0, and weights k1 >= 0 and k2 >= 0 with
\* k1 + k2 <= 1, k1*A + k2*B raises no error and gives a Mixture with a
\* balance that is not negative and a total of 1.0.
C29_BlendByWeightsSucceeds ==
    result.op = "blend" =>
        LET A == heap[result.args.a]
            B == heap[result.args.b]
        IN  (/\ A.balance.properties = B.balance.properties
             /\ Proper(A) /\ Proper(B)
             /\ NonNegative(result.args.k1) /\ NonNegative(result.args.k2)
             /\ SumAtMostOne(result.args.k1, result.args.k2)) =>
                /\ result.err = "none"
                /\ NumLe(Zero, Fraction(result.val.balance))
                /\ Total(result.val) = One

====
